---- MODULE Spec2Model ----
(***************************************************************************)
(* A model of the code-editing agent of src/main.py: the interactive loop  *)
(* CodeEditingAgent.run, the two provider adapters of src/llm_providers,   *)
(* tool execution and the chat-history file.                               *)
(*                                                                         *)
(* Texts are sequences of one-character strings, so that strip() and the   *)
(* newline join of the adapters are computed and not assumed.  A Python    *)
(* exception is a result record whose field "raised" is TRUE.              *)
(***************************************************************************)
EXTENDS Integers, Sequences, FiniteSets, TLC

VARIABLES
    provider,        \* "anthropic" or "openai": the class of self.provider
    show_stats,      \* self.show_stats
    output_file,     \* TRUE when self.output_file is set, FALSE when it is None
    file0,           \* the file at self.output_file when the agent was built
    conversation,    \* self.conversation
    chat_history,    \* self.chat_history: records not yet saved
    total_tokens,    \* self.total_tokens
    file,            \* the file at self.output_file
    pc,              \* where run() is
    message,         \* the response run() is working on
    tool_calls,      \* the local tool_calls of run()
    tool_results,    \* the local tool_results of run()
    request,         \* the messages the adapter gave the vendor in the last call
    uuids,           \* how many history-record ids uuid.uuid4() has produced
    turns,           \* how many non-empty user lines were read
    infers,          \* how many vendor calls were made
    turn_calls,      \* vendor calls that returned, within the current user turn
    turn_tool_resps, \* of these, the responses that carried tool calls
    requested,       \* how many tool calls the responses have carried so far
    turn_end,        \* how the last user turn ended: "none", "complete", "aborted"
    flushed,         \* the buffer lengths of the successful saves, in order
    last,            \* what the last step did
    options,         \* the parameters of chat() and the two API-key variables
    got,             \* what the last call of get_provider gave
    model_name,      \* self.model_name
    system_message,  \* self.system_message
    disk,            \* the part of the file system a tool handler works on
    tool_out,        \* what the last direct call of a tool handler gave
    resp             \* the response run() got last in this turn, and where

vars == <<provider, show_stats, output_file, file0, conversation, chat_history,
          total_tokens, file, pc, message, tool_calls, tool_results, request,
          uuids, turns, infers, turn_calls, turn_tool_resps, requested,
          turn_end, flushed, last, options, got, model_name, system_message,
          disk, tool_out, resp>>

(***************************************************************************)
(* Bounds of the model.                                                    *)
(***************************************************************************)
MaxInfer == 2
MaxToolCalls == 2
MaxAppends == 3

(***************************************************************************)
(* Sequences and texts.                                                    *)
(***************************************************************************)
IsPrefix(s, t) == Len(s) <= Len(t) /\ SubSeq(t, 1, Len(s)) = s

Last(s) == s[Len(s)]

RECURSIVE LStrip(_)
LStrip(s) == IF s # <<>> /\ Head(s) = " " THEN LStrip(Tail(s)) ELSE s

RECURSIVE RStrip(_)
RStrip(s) ==
    IF s # <<>> /\ Last(s) = " " THEN RStrip(SubSeq(s, 1, Len(s) - 1)) ELSE s

\* A text taken as it is, no strip().
Unstripped(s) == s

Strip(s) == RStrip(LStrip(s))

RECURSIVE JoinNewline(_)
JoinNewline(blocks) ==
    IF blocks = <<>> THEN <<>>
    ELSE IF Len(blocks) = 1 THEN blocks[1]
    ELSE blocks[1] \o <<"\n">> \o JoinNewline(Tail(blocks))

(***************************************************************************)
(* Conversation entries.  Every entry has the same fields: a text entry    *)
(* has no items, a tool-request or tool-result entry has no text.          *)
(***************************************************************************)
TextEntry(role, text) ==
    [role |-> role, kind |-> "text", text |-> text, items |-> <<>>]

ItemsEntry(role, kind, items) ==
    [role |-> role, kind |-> kind, text |-> <<>>, items |-> items]

SystemMessage == <<"S">>

NoUsage == [none |-> TRUE]

(***************************************************************************)
(* AnthropicProvider.  A response is [vendor, content, usage]; a content   *)
(* block is [type |-> "text", text] or [type |-> "tool_use", id, name,     *)
(* input].                                                                 *)
(***************************************************************************)
AnthropicModel == "claude-3-7-sonnet-latest"

AnthropicRunInference(messages, system) ==
    [request  |-> [model |-> AnthropicModel, system |-> system,
                   messages |-> messages],
     messages |-> messages]

RECURSIVE SelectToolUse(_)
SelectToolUse(content) ==
    IF content = <<>> THEN <<>>
    ELSE IF Head(content).type = "tool_use"
         THEN <<[id |-> Head(content).id, name |-> Head(content).name,
                 input |-> Head(content).input]>> \o SelectToolUse(Tail(content))
         ELSE SelectToolUse(Tail(content))

AnthropicExtractToolCalls(response) == SelectToolUse(response.content)

RECURSIVE SelectTexts(_)
SelectTexts(content) ==
    IF content = <<>> THEN <<>>
    ELSE IF Head(content).type = "text"
         THEN <<Head(content).text>> \o SelectTexts(Tail(content))
         ELSE SelectTexts(Tail(content))

AnthropicExtractTextContent(response) == JoinNewline(SelectTexts(response.content))

AnthropicGetTokenUsage(response) ==
    [raised            |-> FALSE,
     prompt_tokens     |-> response.usage.input_tokens,
     completion_tokens |-> response.usage.output_tokens,
     total_tokens      |-> response.usage.input_tokens + response.usage.output_tokens]

(***************************************************************************)
(* OpenAIProvider.  A response is [vendor, choices, usage]; a choice is    *)
(* [content, tool_calls] (content <<>> for None), a tool call is           *)
(* [id, name, arguments]; usage is NoUsage when the vendor sent none.      *)
(***************************************************************************)
OpenAIModel == "gpt-4-turbo-preview"

OpenAIRunInferenceInPlace(messages, system) ==
    LET all == IF system # <<>>
               THEN <<TextEntry("system", system)>> \o messages
               ELSE messages
    IN [request  |-> [model |-> OpenAIModel, system |-> <<>>, messages |-> all],
        messages |-> all]

OpenAIRunInferenceSystemLast(messages, system) ==
    LET sent == IF system # <<>>
                THEN messages \o <<TextEntry("system", system)>>
                ELSE messages
    IN [request  |-> [model |-> OpenAIModel, system |-> <<>>, messages |-> sent],
        messages |-> messages]

OpenAIRunInference(messages, system) ==
    LET sent == IF system # <<>>
                THEN <<TextEntry("system", system)>> \o messages
                ELSE messages
    IN [request  |-> [model |-> OpenAIModel, system |-> <<>>, messages |-> sent],
        messages |-> messages]

RECURSIVE ChoiceToolCalls(_)
ChoiceToolCalls(choices) ==
    IF choices = <<>> THEN <<>>
    ELSE [i \in 1..Len(Head(choices).tool_calls) |->
            [id    |-> Head(choices).tool_calls[i].id,
             name  |-> Head(choices).tool_calls[i].name,
             input |-> Head(choices).tool_calls[i].arguments]]
         \o ChoiceToolCalls(Tail(choices))

OpenAIExtractToolCalls(response) == ChoiceToolCalls(response.choices)

RECURSIVE ChoiceTexts(_)
ChoiceTexts(choices) ==
    IF choices = <<>> THEN <<>>
    ELSE IF Head(choices).content # <<>>
         THEN <<Head(choices).content>> \o ChoiceTexts(Tail(choices))
         ELSE ChoiceTexts(Tail(choices))

OpenAIExtractTextContent(response) == JoinNewline(ChoiceTexts(response.choices))

OpenAIGetTokenUsage(response) ==
    IF response.usage = NoUsage
    THEN [raised |-> TRUE, prompt_tokens |-> 0, completion_tokens |-> 0,
          total_tokens |-> 0]
    ELSE [raised            |-> FALSE,
          prompt_tokens     |-> response.usage.prompt_tokens,
          completion_tokens |-> response.usage.completion_tokens,
          total_tokens      |-> response.usage.total_tokens]

(***************************************************************************)
(* The calls run() makes through self.provider.                            *)
(***************************************************************************)
run_inference(p, messages, system) ==
    IF p = "anthropic" THEN AnthropicRunInference(messages, system)
    ELSE OpenAIRunInference(messages, system)

extract_text_content(p, response) ==
    IF p = "anthropic" THEN AnthropicExtractTextContent(response)
    ELSE OpenAIExtractTextContent(response)

extract_tool_calls(p, response) ==
    IF p = "anthropic" THEN AnthropicExtractToolCalls(response)
    ELSE OpenAIExtractToolCalls(response)

get_token_usage(p, response) ==
    IF p = "anthropic" THEN AnthropicGetTokenUsage(response)
    ELSE OpenAIGetTokenUsage(response)

(***************************************************************************)
(* The tool registry and CodeEditingAgent._execute_tool.  A handler reads  *)
(* its input with input_data.get, so it raises on an input that is a       *)
(* string (the OpenAI adapter passes function.arguments as it came); on a  *)
(* dict its outcome depends on the file system, which is the environment.  *)
(***************************************************************************)
RegisteredTools == {"read_file", "list_files", "edit_file"}

\* What the file system can make of a handler call: a handler that is never
\* reached, or that fails on its input before it touches a file, has one
\* outcome only.
HandlerOutcomes(tool_name, tool_input) ==
    IF tool_name \in RegisteredTools /\ tool_input = "dict"
    THEN {"returns", "raises"}
    ELSE {"none"}

Handler(tool_name, tool_input, outcome) ==
    IF tool_input # "dict"
    THEN [raised |-> TRUE, content |-> "'str' object has no attribute 'get'"]
    ELSE IF outcome = "raises"
         THEN [raised |-> TRUE, content |-> "error of " \o tool_name]
         ELSE [raised |-> FALSE, content |-> "result of " \o tool_name]

ToolResult(tool_id, content, is_error) ==
    [type |-> "tool_result", tool_use_id |-> tool_id, content |-> content,
     is_error |-> is_error]

execute_tool_propagates(tools, tool_id, tool_name, tool_input, outcome) ==
    IF tool_name \notin tools
    THEN [raised |-> FALSE, handler |-> "not_run",
          result |-> ToolResult(tool_id, "Tool not found", TRUE)]
    ELSE LET h == Handler(tool_name, tool_input, outcome)
         IN [raised  |-> h.raised,
             handler |-> IF h.raised THEN "raised" ELSE "returned",
             result  |-> ToolResult(tool_id, h.content, h.raised)]

execute_tool_error_flag(tools, tool_id, tool_name, tool_input, outcome) ==
    IF tool_name \notin tools
    THEN [raised |-> FALSE, handler |-> "not_run",
          result |-> ToolResult(tool_id, "Tool not found", TRUE)]
    ELSE LET h == Handler(tool_name, tool_input, outcome)
         IN [raised  |-> FALSE,
             handler |-> IF h.raised THEN "raised" ELSE "returned",
             result  |-> ToolResult(tool_id, h.content, FALSE)]

execute_tool_no_default(tools, tool_id, tool_name, tool_input, outcome) ==
    IF tool_name \notin tools
    THEN [raised |-> TRUE, handler |-> "not_run",
          result |-> ToolResult(tool_id, "StopIteration", TRUE)]
    ELSE LET h == Handler(tool_name, tool_input, outcome)
         IN [raised  |-> FALSE,
             handler |-> IF h.raised THEN "raised" ELSE "returned",
             result  |-> ToolResult(tool_id, h.content, h.raised)]

execute_tool(tools, tool_id, tool_name, tool_input, outcome) ==
    IF tool_name \notin tools
    THEN [raised |-> FALSE, handler |-> "not_run",
          result |-> ToolResult(tool_id, "Tool not found", TRUE)]
    ELSE LET h == Handler(tool_name, tool_input, outcome)
         IN [raised  |-> FALSE,
             handler |-> IF h.raised THEN "raised" ELSE "returned",
             result  |-> ToolResult(tool_id, h.content, h.raised)]

(***************************************************************************)
(* The history file and CodeEditingAgent._save_chat_history.  The file is  *)
(* [kind, recs]: "absent"; "list", a JSON array of records; "corrupt",     *)
(* text json.load rejects with JSONDecodeError; "unreadable", a file whose *)
(* open or read raises (OSError, UnicodeDecodeError); "notlist", valid     *)
(* JSON that is not an array.  The environment decides whether the write   *)
(* goes through, fails at open, or fails after open has truncated.         *)
(***************************************************************************)
FileOf(kind, recs) == [kind |-> kind, recs |-> recs]

WriteOutcomes == {"ok", "open_fails", "write_fails"}

HistoryRecord(id, role, content, input_tokens, output_tokens) ==
    [id |-> id, conversation_id |-> "this", role |-> role, content |-> content,
     usage |-> [input_tokens |-> input_tokens, output_tokens |-> output_tokens]]

OldRecord ==
    [id |-> 0, conversation_id |-> "old", role |-> "user", content |-> <<"p">>,
     usage |-> [input_tokens |-> 0, output_tokens |-> 0]]

SaveResult(f, buffer, outcome, cause) ==
    [file |-> f, chat_history |-> buffer, outcome |-> outcome, cause |-> cause,
     printed |-> IF outcome = "failed" THEN "Error saving chat history" ELSE ""]

save_chat_history_overwrites(out, f, buffer, w) ==
    IF ~out THEN SaveResult(f, buffer, "skipped", "")
    ELSE IF f.kind = "unreadable" THEN SaveResult(f, buffer, "failed", "read")
    ELSE IF f.kind = "notlist" THEN SaveResult(f, buffer, "failed", "combine")
    ELSE IF w = "open_fails" THEN SaveResult(f, buffer, "failed", "write")
    ELSE IF w = "write_fails"
         THEN SaveResult(FileOf("corrupt", <<>>), buffer, "failed", "write")
    ELSE SaveResult(FileOf("list", buffer), <<>>, "saved", "")

\* _save_chat_history with self.chat_history = [] placed before the write.
save_chat_history_clears_first(out, f, buffer, w) ==
    IF ~out THEN SaveResult(f, buffer, "skipped", "")
    ELSE IF f.kind = "unreadable" THEN SaveResult(f, buffer, "failed", "read")
    ELSE IF f.kind = "notlist" THEN SaveResult(f, buffer, "failed", "combine")
    ELSE LET existing_history == IF f.kind = "list" THEN f.recs ELSE <<>>
             combined_history == existing_history \o buffer
         IN IF w = "open_fails" THEN SaveResult(f, <<>>, "failed", "write")
            ELSE IF w = "write_fails"
                 THEN SaveResult(FileOf("corrupt", <<>>), <<>>, "failed", "write")
            ELSE SaveResult(FileOf("list", combined_history), <<>>, "saved", "")

save_chat_history(out, f, buffer, w) ==
    IF ~out THEN SaveResult(f, buffer, "skipped", "")
    ELSE IF f.kind = "unreadable" THEN SaveResult(f, buffer, "failed", "read")
    ELSE IF f.kind = "notlist" THEN SaveResult(f, buffer, "failed", "combine")
    ELSE LET existing_history == IF f.kind = "list" THEN f.recs ELSE <<>>
             combined_history == existing_history \o buffer
         IN IF w = "open_fails" THEN SaveResult(f, buffer, "failed", "write")
            ELSE IF w = "write_fails"
                 THEN SaveResult(FileOf("corrupt", <<>>), buffer, "failed", "write")
            ELSE SaveResult(FileOf("list", combined_history), <<>>, "saved", "")

(***************************************************************************)
(* What the environment can supply: the lines the user types and the       *)
(* responses a vendor returns.  The i-th tool segment of a response has    *)
(* id i; its name is a registered tool or one the registry does not know.  *)
(***************************************************************************)
UserLines == {<<>>, <<" ">>, <<"h">>, <<" ", "h", " ">>}

RequestedNames == {"read_file", "bogus"}

AssistantTexts == {<<>>, <<"a">>}

ToolSegments(input) ==
    UNION {{[i \in 1..n |-> [id |-> i, name |-> names[i], input |-> input]] :
              names \in [1..n -> RequestedNames]} : n \in 0..MaxToolCalls}

AnthropicResponses ==
    {[vendor  |-> "anthropic",
      content |-> (IF t = <<>> THEN <<>> ELSE <<[type |-> "text", text |-> t]>>)
                  \o [i \in 1..Len(c) |->
                        [type |-> "tool_use", id |-> c[i].id, name |-> c[i].name,
                         input |-> c[i].input]],
      usage   |-> [input_tokens |-> 2, output_tokens |-> 1]] :
        t \in AssistantTexts, c \in ToolSegments("dict")}

OpenAIUsages ==
    {[prompt_tokens |-> 2, completion_tokens |-> 1, total_tokens |-> 3],
     [prompt_tokens |-> 2, completion_tokens |-> 1, total_tokens |-> 4],
     NoUsage}

OpenAIResponses ==
    {[vendor  |-> "openai",
      choices |-> <<[content    |-> t,
                     tool_calls |-> [i \in 1..Len(c) |->
                                       [id |-> c[i].id, name |-> c[i].name,
                                        arguments |-> c[i].input]]]>>,
      usage   |-> u] :
        t \in AssistantTexts, c \in ToolSegments("str"), u \in OpenAIUsages}

Responses(p) == IF p = "anthropic" THEN AnthropicResponses ELSE OpenAIResponses

NoMessage == [vendor |-> "none"]

CountToolSegments(response) ==
    IF response.vendor = "anthropic"
    THEN Cardinality({i \in 1..Len(response.content) :
                        response.content[i].type = "tool_use"})
    ELSE IF response.vendor = "openai"
    THEN Len(response.choices[1].tool_calls)
    ELSE 0

InitialFiles ==
    {FileOf("absent", <<>>), FileOf("list", <<OldRecord>>), FileOf("corrupt", <<>>),
     FileOf("unreadable", <<>>), FileOf("notlist", <<>>)}

(***************************************************************************)
(* What a step leaves in "last".                                           *)
(***************************************************************************)
Did(act) ==
    [act |-> act, raised |-> FALSE, cause |-> "", printed |-> "",
     handler |-> "", save |-> "", env |-> "", line |-> <<>>]

Raised(act, cause) ==
    [Did(act) EXCEPT !.raised = TRUE, !.cause = cause, !.printed = "Error"]

(***************************************************************************)
(* get_provider and the chat command.  A provider name is a text, so that  *)
(* lower() is computed; an API-key variable is "unset", "" or a key.       *)
(***************************************************************************)
Anthropic == <<"a", "n", "t", "h", "r", "o", "p", "i", "c">>

OpenAI == <<"o", "p", "e", "n", "a", "i">>

LowerChar(c) ==
    CASE c = "A" -> "a"
      [] c = "I" -> "i"
      [] c = "O" -> "o"
      [] OTHER -> c

Lower(text) == [i \in 1..Len(text) |-> LowerChar(text[i])]

NoCall == [called |-> FALSE]

\* No response has reached run() in this turn.
NoResp == [has |-> FALSE]

\* The branches of get_provider on the name it compares.
ProviderFor(provider_name, anthropic_key, openai_key) ==
    IF provider_name = Anthropic
    THEN IF anthropic_key \in {"unset", ""}
         THEN [called |-> TRUE, raised |-> TRUE, provider |-> "none",
               api_key |-> "", error |-> "Please set the ANTHROPIC_API_KEY"]
         ELSE [called |-> TRUE, raised |-> FALSE, provider |-> "anthropic",
               api_key |-> anthropic_key, error |-> ""]
    ELSE IF provider_name = OpenAI
    THEN IF openai_key \in {"unset", ""}
         THEN [called |-> TRUE, raised |-> TRUE, provider |-> "none",
               api_key |-> "", error |-> "Please set the OPENAI_API_KEY"]
         ELSE [called |-> TRUE, raised |-> FALSE, provider |-> "openai",
               api_key |-> openai_key, error |-> ""]
    ELSE [called |-> TRUE, raised |-> TRUE, provider |-> "none",
          api_key |-> "", error |-> "Unsupported LLM provider"]

\* get_provider comparing the provider name as it was given.
get_provider_case_sensitive(provider_name, anthropic_key, openai_key) ==
    ProviderFor(provider_name, anthropic_key, openai_key)

\* get_provider(provider_name), with the two os.getenv values as arguments.
get_provider(provider_name, anthropic_key, openai_key) ==
    ProviderFor(Lower(provider_name), anthropic_key, openai_key)

\* model_name = model or (the default of the provider), then
\* f"{provider}/{model_name}"; model is "" when the option was not given.
ModelName(provider_name, model) ==
    provider_name \o <<"/">> \o
        <<IF model # "" THEN model
          ELSE IF provider_name = Anthropic
               THEN "claude-3-7-sonnet-latest" ELSE "gpt-4-turbo-preview">>

ProviderText(p) == IF p = "anthropic" THEN Anthropic ELSE OpenAI

\* The agent as chat() builds it, with both keys set and no --model.
BuiltByChat ==
    /\ options = [provider |-> ProviderText(provider), model |-> "",
                  anthropic_key |-> "k", openai_key |-> "k"]
    /\ got = get_provider(options.provider, "k", "k")
    /\ model_name = ModelName(options.provider, "")
    /\ system_message = SystemMessage

\* No tool handler is called outside run().
NoHandlerCall ==
    /\ disk = [kind |-> "none"]
    /\ tool_out = NoCall

(***************************************************************************)
(* The state after CodeEditingAgent.__init__, as chat() builds the agent.  *)
(***************************************************************************)
Init ==
    /\ provider \in {"anthropic", "openai"}
    /\ show_stats \in BOOLEAN
    /\ output_file \in BOOLEAN
    /\ file \in IF output_file THEN InitialFiles ELSE {FileOf("absent", <<>>)}
    /\ file0 = file
    /\ conversation = <<>>
    /\ chat_history = <<>>
    /\ total_tokens = [prompt_tokens |-> 0, completion_tokens |-> 0,
                       total_tokens |-> 0]
    /\ pc = "await"
    /\ message = NoMessage
    /\ tool_calls = <<>>
    /\ tool_results = <<>>
    /\ request = [model |-> "", system |-> <<>>, messages |-> <<>>]
    /\ uuids = 0
    /\ turns = 0
    /\ infers = 0
    /\ turn_calls = 0
    /\ turn_tool_resps = 0
    /\ requested = 0
    /\ turn_end = "none"
    /\ flushed = <<>>
    /\ last = Did("init")
    /\ resp = NoResp
    /\ BuiltByChat
    /\ NoHandlerCall

(***************************************************************************)
(* CodeEditingAgent.run.  pc is "await" at input(), "infer" before         *)
(* _run_inference, "text" after it, "save" before _save_chat_history,      *)
(* "calls" before extract_tool_calls, "exec" in the loop over the tool     *)
(* calls, and "done" when run() has returned.                              *)
(***************************************************************************)
settings == <<provider, show_stats, output_file, file0, options, got, model_name,
              system_message, disk, tool_out>>

\* What a step of run() leaves alone unless it receives a response.
config == <<settings, resp>>

\* message = self._run_inference() returned response: the length of the
\* conversation then, the text and the tool calls of the response, and
\* whether an exception has ended the work on it.
Received(response) ==
    [has   |-> TRUE,
     at    |-> Len(conversation),
     text  |-> extract_text_content(provider, response),
     calls |-> extract_tool_calls(provider, response),
     cut   |-> FALSE]

locals == <<message, tool_calls, tool_results>>

counters == <<turns, infers, turn_calls, turn_tool_resps, requested>>

\* except Exception as e: print(f"Error: {e}"), and the outer loop goes on.
OnExceptionBreaks == "done"

OnExceptionRetries == "infer"

OnException == "await"

\* if not tool_calls: break
LoopBreaksAlways(calls) == TRUE

LoopBreaks(calls) == calls = <<>>

\* The try block's exception handler: the turn is over, nothing is undone.
Abort(act, cause) ==
    /\ pc' = OnException
    /\ turn_end' = "aborted"
    /\ last' = Raised(act, cause)

\* input() returns a line.
UserInput(line) ==
    /\ pc = "await"
    /\ LET user_input == Strip(line)
       IN IF user_input = <<>>
          THEN /\ last' = [Did("EmptyInput") EXCEPT !.line = line]
               /\ UNCHANGED <<conversation, chat_history, uuids, pc, turns,
                              turn_calls, turn_tool_resps, turn_end, resp>>
          ELSE /\ infers < MaxInfer
               /\ conversation' = Append(conversation, TextEntry("user", user_input))
               /\ IF output_file
                  THEN /\ chat_history' =
                            Append(chat_history,
                                   HistoryRecord(uuids + 1, "user", user_input, 0, 0))
                       /\ uuids' = uuids + 1
                  ELSE UNCHANGED <<chat_history, uuids>>
               /\ pc' = "infer"
               /\ turns' = turns + 1
               /\ turn_calls' = 0
               /\ turn_tool_resps' = 0
               /\ turn_end' = "none"
               /\ resp' = NoResp
               /\ last' = [Did("UserInput") EXCEPT !.line = line]
    /\ UNCHANGED <<settings, total_tokens, file, locals, request, infers, requested,
                   flushed>>

\* input() raises EOFError: an Exception, so the handler prints and loops.
InputFails ==
    /\ pc = "await"
    /\ pc' = OnException
    /\ last' = Raised("InputFails", "input")
    /\ UNCHANGED <<config, conversation, chat_history, total_tokens, file, locals,
                   request, uuids, counters, turn_end, flushed>>

\* message = self._run_inference(), the vendor call raising.
InferenceFails ==
    /\ pc = "infer"
    /\ infers < MaxInfer
    /\ LET call == run_inference(provider, conversation, system_message)
       IN /\ conversation' = call.messages
          /\ request' = call.request
    /\ infers' = infers + 1
    /\ turn_calls' = turn_calls + 1
    /\ Abort("RunInference", "run_inference")
    /\ UNCHANGED <<config, chat_history, total_tokens, file, locals, uuids, turns,
                   turn_tool_resps, requested, flushed>>

\* self.total_tokens[...] = usage[...] for the three counters.
AddUsageOverwrites(total, usage) ==
    [prompt_tokens     |-> usage.prompt_tokens,
     completion_tokens |-> usage.completion_tokens,
     total_tokens      |-> usage.total_tokens]

\* self.total_tokens[...] += usage[...] for the three counters.
AddUsage(total, usage) ==
    [prompt_tokens     |-> total.prompt_tokens + usage.prompt_tokens,
     completion_tokens |-> total.completion_tokens + usage.completion_tokens,
     total_tokens      |-> total.total_tokens + usage.total_tokens]

\* message = self._run_inference(), the vendor call returning a response.
RunInference(response) ==
    /\ pc = "infer"
    /\ infers < MaxInfer
    /\ requested + CountToolSegments(response) <= MaxToolCalls
    /\ LET call == run_inference(provider, conversation, system_message)
       IN /\ conversation' = call.messages
          /\ request' = call.request
    /\ infers' = infers + 1
    /\ turn_calls' = turn_calls + 1
    /\ requested' = requested + CountToolSegments(response)
    /\ LET usage == get_token_usage(provider, response)
       IN IF show_stats /\ usage.raised
          THEN /\ Abort("RunInference", "get_token_usage")
               /\ UNCHANGED <<total_tokens, message, turn_tool_resps, resp>>
          ELSE /\ total_tokens' =
                    IF show_stats THEN AddUsage(total_tokens, usage)
                    ELSE total_tokens
               /\ message' = response
               /\ resp' = Received(response)
               /\ turn_tool_resps' =
                    IF CountToolSegments(response) > 0
                    THEN turn_tool_resps + 1 ELSE turn_tool_resps
               /\ pc' = "text"
               /\ last' = Did("RunInference")
               /\ UNCHANGED turn_end
    /\ UNCHANGED <<settings, chat_history, file, tool_calls, tool_results, uuids,
                   turns, flushed>>

\* text_content = extract_text_content(message), up to the call of
\* _save_chat_history.
DeliverText ==
    /\ pc = "text"
    /\ LET text_content == extract_text_content(provider, message)
           usage == get_token_usage(provider, message)
       IN IF text_content = <<>>
          THEN /\ pc' = "calls"
               /\ last' = Did("DeliverText")
               /\ UNCHANGED <<conversation, chat_history, uuids, turn_end, resp>>
          ELSE /\ conversation' =
                    Append(conversation, TextEntry("assistant", text_content))
               /\ IF ~output_file
                  THEN /\ pc' = "calls"
                       /\ last' = [Did("DeliverText") EXCEPT !.printed = "Agent"]
                       /\ UNCHANGED <<chat_history, uuids, turn_end, resp>>
                  ELSE IF usage.raised
                  THEN /\ Abort("DeliverText", "get_token_usage")
                       /\ resp' = [resp EXCEPT !.cut = TRUE]
                       /\ UNCHANGED <<chat_history, uuids>>
                  ELSE /\ chat_history' =
                            Append(chat_history,
                                   HistoryRecord(uuids + 1, "assistant", text_content,
                                                 usage.prompt_tokens,
                                                 usage.completion_tokens))
                       /\ uuids' = uuids + 1
                       /\ pc' = "save"
                       /\ last' = [Did("DeliverText") EXCEPT !.printed = "Agent"]
                       /\ UNCHANGED <<turn_end, resp>>
    /\ UNCHANGED <<settings, total_tokens, file, locals, request, counters, flushed>>

\* self._save_chat_history(), called from run().
Save(w) ==
    LET saved == save_chat_history(output_file, file, chat_history, w)
    IN /\ file' = saved.file
       /\ chat_history' = saved.chat_history
       /\ flushed' = IF saved.outcome = "saved"
                     THEN Append(flushed, Len(chat_history)) ELSE flushed
       /\ last' = [Did("SaveChatHistory") EXCEPT !.save = saved.outcome,
                                                 !.cause = saved.cause,
                                                 !.printed = saved.printed]

SaveChatHistory(w) ==
    /\ pc = "save"
    /\ Save(w)
    /\ pc' = "calls"
    /\ UNCHANGED <<config, conversation, total_tokens, locals, request, uuids,
                   counters, turn_end>>

\* tool_calls = extract_tool_calls(message), the break, and the append of the
\* assistant entry that holds the tool calls.
ExtractToolCalls ==
    /\ pc = "calls"
    /\ LET calls == extract_tool_calls(provider, message)
       IN /\ tool_calls' = calls
          /\ IF LoopBreaks(calls)
             THEN /\ pc' = "await"
                  /\ turn_end' = "complete"
                  /\ UNCHANGED <<conversation, tool_results>>
             ELSE /\ conversation' =
                       Append(conversation,
                              ItemsEntry("assistant", "tool_use",
                                         [i \in 1..Len(calls) |->
                                            [type  |-> "tool_use",
                                             id    |-> calls[i].id,
                                             name  |-> calls[i].name,
                                             input |-> calls[i].input]]))
                  /\ tool_results' = <<>>
                  /\ pc' = "exec"
                  /\ UNCHANGED turn_end
    /\ message' = NoMessage
    /\ last' = Did("ExtractToolCalls")
    /\ UNCHANGED <<config, chat_history, total_tokens, file, request, uuids,
                   counters, flushed>>

\* The tool call a loop over reversed(tool_calls) would be at.
CurrentCallReversed == tool_calls[Len(tool_calls) - Len(tool_results)]

\* The tool call the loop over tool_calls is at.
CurrentCall == tool_calls[Len(tool_results) + 1]

\* One iteration of the loop over tool_calls: result = self._execute_tool(...).
ExecuteTool(outcome) ==
    /\ pc = "exec"
    /\ Len(tool_results) < Len(tool_calls)
    /\ outcome \in HandlerOutcomes(CurrentCall.name, CurrentCall.input)
    /\ LET tool_call == CurrentCall
           done == execute_tool(RegisteredTools, tool_call.id, tool_call.name,
                                tool_call.input, outcome)
       IN IF done.raised
          THEN /\ pc' = OnException
               /\ turn_end' = "aborted"
               /\ last' = [Raised("ExecuteTool", "execute_tool")
                             EXCEPT !.env = outcome]
               /\ UNCHANGED tool_results
          ELSE /\ tool_results' = Append(tool_results, done.result)
               /\ last' = [Did("ExecuteTool") EXCEPT !.handler = done.handler,
                                                     !.env = outcome]
               /\ UNCHANGED <<pc, turn_end>>
    /\ UNCHANGED <<config, conversation, chat_history, total_tokens, file, message,
                   tool_calls, request, uuids, counters, flushed>>

\* After the loop, one user-role entry for each tool result.
AppendToolResultsEach ==
    /\ pc = "exec"
    /\ Len(tool_results) >= Len(tool_calls)
    /\ conversation' =
         conversation \o [i \in 1..Len(tool_results) |->
                            ItemsEntry("user", "tool_result", <<tool_results[i]>>)]
    /\ pc' = "infer"
    /\ last' = Did("AppendToolResults")
    /\ UNCHANGED <<config, chat_history, total_tokens, file, locals, request, uuids,
                   counters, turn_end, flushed>>

\* After the loop, the tool results left out of the conversation.
AppendToolResultsDropped ==
    /\ pc = "exec"
    /\ Len(tool_results) >= Len(tool_calls)
    /\ pc' = "infer"
    /\ last' = Did("AppendToolResults")
    /\ UNCHANGED <<config, conversation, chat_history, total_tokens, file, locals,
                   request, uuids, counters, turn_end, flushed>>

\* After the loop: the user-role entry that holds the tool results.
AppendToolResults ==
    /\ pc = "exec"
    /\ Len(tool_results) >= Len(tool_calls)
    /\ conversation' =
         Append(conversation, ItemsEntry("user", "tool_result", tool_results))
    /\ pc' = "infer"
    /\ last' = Did("AppendToolResults")
    /\ UNCHANGED <<config, chat_history, total_tokens, file, locals, request, uuids,
                   counters, turn_end, flushed>>

\* The values of pc inside the try block of run().
RunPcs == {"await", "infer", "text", "save", "calls", "exec"}

\* Ctrl+C anywhere in the try block.  While _save_chat_history has the file
\* open for writing (the existing history was read without an error), the
\* interrupt can leave it truncated.
KeyboardInterrupt(truncated) ==
    /\ pc \in RunPcs
    /\ pc' = "done"
    /\ IF truncated
       THEN /\ pc = "save"
            /\ output_file
            /\ file.kind \notin {"unreadable", "notlist"}
            /\ file' = FileOf("corrupt", <<>>)
       ELSE UNCHANGED file
    /\ last' = [Did("KeyboardInterrupt") EXCEPT !.printed = "Goodbye"]
    /\ UNCHANGED <<config, conversation, chat_history, total_tokens, locals,
                   request, uuids, counters, turn_end, flushed>>

Next ==
    \/ \E line \in UserLines : UserInput(line)
    \/ InputFails
    \/ InferenceFails
    \/ \E response \in Responses(provider) : RunInference(response)
    \/ DeliverText
    \/ \E w \in WriteOutcomes : SaveChatHistory(w)
    \/ ExtractToolCalls
    \/ \E outcome \in {"returns", "raises", "none"} : ExecuteTool(outcome)
    \/ AppendToolResults
    \/ \E truncated \in BOOLEAN : KeyboardInterrupt(truncated)

Spec == Init /\ [][Next]_vars

(***************************************************************************)
(* _save_chat_history called on an agent outside run(), as the tests of    *)
(* src/tests/test_main.py do: records are put in agent.chat_history and    *)
(* the method is called, any number of times.                              *)
(***************************************************************************)
InitDirect ==
    /\ provider \in {"anthropic", "openai"}
    /\ show_stats = FALSE
    /\ output_file \in BOOLEAN
    /\ file \in InitialFiles
    /\ file0 = file
    /\ conversation = <<>>
    /\ chat_history = <<>>
    /\ total_tokens = [prompt_tokens |-> 0, completion_tokens |-> 0,
                       total_tokens |-> 0]
    /\ pc = "direct"
    /\ message = NoMessage
    /\ tool_calls = <<>>
    /\ tool_results = <<>>
    /\ request = [model |-> "", system |-> <<>>, messages |-> <<>>]
    /\ uuids = 0
    /\ turns = 0
    /\ infers = 0
    /\ turn_calls = 0
    /\ turn_tool_resps = 0
    /\ requested = 0
    /\ turn_end = "none"
    /\ flushed = <<>>
    /\ last = Did("init")
    /\ resp = NoResp
    /\ BuiltByChat
    /\ NoHandlerCall

\* self.chat_history.append({...}) with a fresh uuid.
AppendHistory(role) ==
    /\ pc = "direct"
    /\ uuids < MaxAppends
    /\ chat_history' =
         Append(chat_history, HistoryRecord(uuids + 1, role, <<"h">>, 0, 0))
    /\ uuids' = uuids + 1
    /\ last' = Did("AppendHistory")
    /\ UNCHANGED <<config, conversation, total_tokens, file, pc, locals, request,
                   counters, turn_end, flushed>>

\* agent._save_chat_history()
DirectSave(w) ==
    /\ pc = "direct"
    /\ Len(flushed) < MaxAppends
    /\ Save(w)
    /\ UNCHANGED <<config, conversation, total_tokens, pc, locals, request, uuids,
                   counters, turn_end>>

NextDirect ==
    \/ \E role \in {"user", "assistant"} : AppendHistory(role)
    \/ \E w \in WriteOutcomes : DirectSave(w)

HistorySpec == InitDirect /\ [][NextDirect]_vars

(***************************************************************************)
(* The chat command: click checks --provider against its choices, chat()   *)
(* calls get_provider, builds the agent and calls agent.run().  The tests  *)
(* of src/tests/test_main.py call get_provider on its own.  The session is *)
(* one without --stats and without --output.                               *)
(***************************************************************************)
ProviderNames ==
    {Anthropic, OpenAI, <<"O", "p", "e", "n", "A", "I">>,
     <<"o", "l", "l", "a", "m", "a">>}

ModelOptions == {"", "claude-3-opus-latest"}

KeyValues == {"unset", "", "k"}

\* type=click.Choice(["anthropic", "openai"])
Choice == {Anthropic, OpenAI}

InitChat ==
    /\ provider = "none"
    /\ show_stats = FALSE
    /\ output_file = FALSE
    /\ file = FileOf("absent", <<>>)
    /\ file0 = file
    /\ conversation = <<>>
    /\ chat_history = <<>>
    /\ total_tokens = [prompt_tokens |-> 0, completion_tokens |-> 0,
                       total_tokens |-> 0]
    /\ pc = "chat"
    /\ message = NoMessage
    /\ tool_calls = <<>>
    /\ tool_results = <<>>
    /\ request = [model |-> "", system |-> <<>>, messages |-> <<>>]
    /\ uuids = 0
    /\ turns = 0
    /\ infers = 0
    /\ turn_calls = 0
    /\ turn_tool_resps = 0
    /\ requested = 0
    /\ turn_end = "none"
    /\ flushed = <<>>
    /\ last = Did("init")
    /\ resp = NoResp
    /\ options \in [provider : ProviderNames, model : ModelOptions,
                    anthropic_key : KeyValues, openai_key : KeyValues]
    /\ got = NoCall
    /\ model_name = <<>>
    /\ system_message = <<>>
    /\ NoHandlerCall

\* The command line is parsed and chat() runs up to agent.run(); an
\* exception becomes a ClickException and the process exits.
Chat ==
    /\ pc = "chat"
    /\ IF options.provider \notin Choice
       THEN /\ pc' = "exit"
            /\ last' = Raised("Chat", "usage")
            /\ UNCHANGED <<provider, got, model_name, system_message>>
       ELSE LET called == get_provider(options.provider, options.anthropic_key,
                                       options.openai_key)
            IN /\ got' = called
               /\ IF called.raised
                  THEN /\ pc' = "exit"
                       /\ last' = Raised("Chat", "get_provider")
                       /\ UNCHANGED <<provider, model_name, system_message>>
                  ELSE /\ provider' = called.provider
                       /\ model_name' = ModelName(options.provider, options.model)
                       /\ system_message' = SystemMessage
                       /\ pc' = "await"
                       /\ last' = Did("Chat")
    /\ UNCHANGED <<show_stats, output_file, file0, options, disk, tool_out, resp,
                   conversation, chat_history, total_tokens, file, locals, request,
                   uuids, counters, turn_end, flushed>>

\* get_provider(provider_name) called on its own.
GetProvider ==
    /\ pc = "chat"
    /\ got' = get_provider(options.provider, options.anthropic_key,
                           options.openai_key)
    /\ pc' = "called"
    /\ last' = IF got'.raised THEN Raised("GetProvider", "get_provider")
               ELSE Did("GetProvider")
    /\ UNCHANGED <<provider, show_stats, output_file, file0, options, model_name,
                   system_message, disk, tool_out, resp, conversation, chat_history,
                   total_tokens, file, locals, request, uuids, counters, turn_end,
                   flushed>>

NextChat ==
    \/ Chat
    \/ GetProvider
    \/ \E line \in UserLines : UserInput(line)
    \/ InputFails
    \/ InferenceFails
    \/ \E response \in Responses(provider) : RunInference(response)
    \/ DeliverText
    \/ ExtractToolCalls
    \/ \E outcome \in {"returns", "raises", "none"} : ExecuteTool(outcome)
    \/ AppendToolResults
    \/ KeyboardInterrupt(FALSE)

ChatSpec == InitChat /\ [][NextChat]_vars

(***************************************************************************)
(* The adapters called on their own, as the tests of                       *)
(* src/tests/llm_providers do: extract_tool_calls on a vendor response,    *)
(* and run_inference on a list of messages with a system prompt or none.   *)
(* In a vendor response the tool segment at position i of the whole        *)
(* response has id i.                                                      *)
(***************************************************************************)
MaxBlocks == 3
MaxChoices == 2
MaxMessages == 2

Block(i) ==
    {[type |-> "text", text |-> <<"a">>]}
    \cup {[type |-> "tool_use", id |-> i, name |-> n, input |-> "dict"] :
            n \in RequestedNames}

\* The contents of n blocks.
RECURSIVE ContentsOf(_)
ContentsOf(n) ==
    IF n = 0 THEN {<<>>}
    ELSE {Append(c, b) : c \in ContentsOf(n - 1), b \in Block(n)}

AnthropicContents(max) == UNION {ContentsOf(n) : n \in 0..max}

ChoiceOf(k) ==
    {[content    |-> t,
      tool_calls |-> [i \in 1..Len(names) |->
                        [id |-> (k - 1) * MaxToolCalls + i, name |-> names[i],
                         arguments |-> "str"]]] :
        t \in AssistantTexts,
        names \in UNION {[1..n -> RequestedNames] : n \in 0..MaxToolCalls}}

\* The lists of n choices.
RECURSIVE ChoicesOf(_)
ChoicesOf(n) ==
    IF n = 0 THEN {<<>>}
    ELSE {Append(c, k) : c \in ChoicesOf(n - 1), k \in ChoiceOf(n)}

OpenAIChoices(max) == UNION {ChoicesOf(n) : n \in 1..max}

AdapterResponses(p) ==
    IF p = "anthropic"
    THEN {[vendor |-> "anthropic", content |-> c,
           usage |-> [input_tokens |-> 2, output_tokens |-> 1]] :
            c \in AnthropicContents(MaxBlocks)}
    ELSE {[vendor |-> "openai", choices |-> c,
           usage |-> [prompt_tokens |-> 2, completion_tokens |-> 1,
                      total_tokens |-> 3]] : c \in OpenAIChoices(MaxChoices)}

Entries ==
    {TextEntry("user", <<"h">>), TextEntry("assistant", <<"a">>),
     ItemsEntry("user", "tool_result", <<ToolResult(1, "OK", FALSE)>>)}

Conversations == UNION {[1..n -> Entries] : n \in 0..MaxMessages}

InitAdapter ==
    /\ provider \in {"anthropic", "openai"}
    /\ \/ /\ pc = "extract"
          /\ message \in AdapterResponses(provider)
          /\ conversation = <<>>
          /\ system_message = SystemMessage
       \/ /\ pc = "send"
          /\ message = NoMessage
          /\ conversation \in Conversations
          /\ system_message \in {<<>>, SystemMessage}
    /\ show_stats = FALSE
    /\ output_file = FALSE
    /\ file = FileOf("absent", <<>>)
    /\ file0 = file
    /\ chat_history = <<>>
    /\ total_tokens = [prompt_tokens |-> 0, completion_tokens |-> 0,
                       total_tokens |-> 0]
    /\ tool_calls = <<>>
    /\ tool_results = <<>>
    /\ request = [model |-> "", system |-> <<>>, messages |-> <<>>]
    /\ uuids = 0
    /\ turns = 0
    /\ infers = 0
    /\ turn_calls = 0
    /\ turn_tool_resps = 0
    /\ requested = 0
    /\ turn_end = "none"
    /\ flushed = <<>>
    /\ last = Did("init")
    /\ resp = NoResp
    /\ options = [provider |-> ProviderText(provider), model |-> "",
                  anthropic_key |-> "k", openai_key |-> "k"]
    /\ got = get_provider(options.provider, "k", "k")
    /\ model_name = ModelName(options.provider, "")
    /\ NoHandlerCall

\* provider.extract_tool_calls(response)
ExtractCalls ==
    /\ pc = "extract"
    /\ tool_calls' = extract_tool_calls(provider, message)
    /\ pc' = "extracted"
    /\ last' = Did("ExtractCalls")
    /\ UNCHANGED <<config, conversation, chat_history, total_tokens, file, message,
                   tool_results, request, uuids, counters, turn_end, flushed>>

\* provider.run_inference(client, messages, tools, system)
SendMessages ==
    /\ pc = "send"
    /\ LET call == run_inference(provider, conversation, system_message)
       IN /\ conversation' = call.messages
          /\ request' = call.request
    /\ pc' = "sent"
    /\ last' = Did("SendMessages")
    /\ UNCHANGED <<config, chat_history, total_tokens, file, locals, uuids,
                   counters, turn_end, flushed>>

NextAdapter ==
    \/ ExtractCalls
    \/ SendMessages

AdapterSpec == InitAdapter /\ [][NextAdapter]_vars

(***************************************************************************)
(* The handlers of FileToolsPlugin called on their own, as the tests of    *)
(* src/tests/plugins/test_file_tools.py do.  disk is what is at the path   *)
(* the input names: nothing, a regular file with its content (readable     *)
(* and writable), or a directory with its entries.  A text is ordered as   *)
(* Python orders str values, by the code points of its characters.         *)
(***************************************************************************)
MaxStr == 1
MaxContent == 3

Absent == [kind |-> "absent"]

FileWith(content) == [kind |-> "file", content |-> content]

DirWith(entries) == [kind |-> "dir", entries |-> entries]

CharCode(c) ==
    CASE c = "." -> 46
      [] c = "/" -> 47
      [] c = "a" -> 97
      [] c = "b" -> 98

RECURSIVE TextLess(_, _)
TextLess(s, t) ==
    IF t = <<>> THEN FALSE
    ELSE IF s = <<>> THEN TRUE
    ELSE IF Head(s) = Head(t) THEN TextLess(Tail(s), Tail(t))
    ELSE CharCode(Head(s)) < CharCode(Head(t))

RECURSIVE Insert(_, _)
Insert(x, sorted) ==
    IF sorted = <<>> THEN <<x>>
    ELSE IF TextLess(x, Head(sorted)) THEN <<x>> \o sorted
    ELSE <<Head(sorted)>> \o Insert(x, Tail(sorted))

\* The list as it is, in the order of iteration.
Unsorted(list) == list

RECURSIVE Sorted(_)
Sorted(list) ==
    IF list = <<>> THEN <<>>
    ELSE Insert(list[Len(list)], Sorted(SubSeq(list, 1, Len(list) - 1)))

\* json.dumps of a list of str: the text of a JSON array.
JsonDumps(list) == [json_array |-> list]

HandlerReturn(out) == [raised |-> FALSE, out |-> out]

HandlerRaise(error) == [raised |-> TRUE, out |-> error]

\* _read_file
read_file(d, path) ==
    IF path = <<>> THEN HandlerRaise("Path is required")
    ELSE IF d.kind # "file" THEN HandlerRaise("Error reading file")
    ELSE HandlerReturn(d.content)

RECURSIVE NamesOf(_, _, _)
NamesOf(items, kind, suffix) ==
    IF items = <<>> THEN <<>>
    ELSE IF Head(items).kind = kind
         THEN <<Head(items).name \o suffix>> \o NamesOf(Tail(items), kind, suffix)
         ELSE NamesOf(Tail(items), kind, suffix)

\* _list_files, iterdir yielding the entries in the order items.
list_files(d, items) ==
    IF d.kind = "absent" THEN HandlerRaise("Error listing files: does not exist")
    ELSE IF d.kind = "file" THEN HandlerRaise("Error listing files")
    ELSE LET files == NamesOf(items, "file", <<>>)
             directories == NamesOf(items, "dir", <<"/">>)
         IN HandlerReturn(JsonDumps(Sorted(directories) \o Sorted(files)))

\* old_str in content
RECURSIVE Contains(_, _)
Contains(content, old_str) ==
    IF Len(content) < Len(old_str) THEN FALSE
    ELSE IF SubSeq(content, 1, Len(old_str)) = old_str THEN TRUE
    ELSE Contains(Tail(content), old_str)

\* content.replace(old_str, new_str, 1)
RECURSIVE str_replace_first(_, _, _)
str_replace_first(content, old_str, new_str) ==
    IF Len(content) < Len(old_str) THEN content
    ELSE IF SubSeq(content, 1, Len(old_str)) = old_str
         THEN new_str \o SubSeq(content, Len(old_str) + 1, Len(content))
         ELSE <<Head(content)>> \o str_replace_first(Tail(content), old_str, new_str)

\* content.replace(old_str, new_str), old_str not empty
RECURSIVE str_replace(_, _, _)
str_replace(content, old_str, new_str) ==
    IF Len(content) < Len(old_str) THEN content
    ELSE IF SubSeq(content, 1, Len(old_str)) = old_str
         THEN new_str \o str_replace(SubSeq(content, Len(old_str) + 1, Len(content)),
                                     old_str, new_str)
         ELSE <<Head(content)>> \o str_replace(Tail(content), old_str, new_str)

\* _edit_file: what it returns or raises, and what is at the path afterwards.
edit_file(d, path, old_str, new_str) ==
    IF path = <<>>
    THEN [result |-> HandlerRaise("Path is required"), disk |-> d]
    ELSE IF old_str = new_str
    THEN [result |-> HandlerRaise("old_str and new_str must be different"),
          disk |-> d]
    ELSE IF d.kind = "absent" /\ old_str = <<>>
    THEN [result |-> HandlerReturn("Successfully created file"),
          disk |-> FileWith(new_str)]
    ELSE IF d.kind # "file"
    THEN [result |-> HandlerRaise("Error reading file"), disk |-> d]
    ELSE IF old_str = <<>>
    THEN [result |-> HandlerReturn("OK"), disk |-> FileWith(d.content \o new_str)]
    ELSE IF ~Contains(d.content, old_str)
    THEN [result |-> HandlerRaise("old_str not found in file"), disk |-> d]
    ELSE [result |-> HandlerReturn("OK"),
          disk |-> FileWith(str_replace(d.content, old_str, new_str))]

Texts(n) == UNION {[1..k -> {"a", "b"}] : k \in 0..n}

Paths == {<<>>, <<"p">>}

EntryNames == {<<"a">>, <<"b">>, <<"a", ".", "b">>}

\* What a directory can hold: each name is that of a file, of a directory,
\* of something that is neither, or of nothing.
Directories ==
    {{[name |-> n, kind |-> k[n]] : n \in {m \in EntryNames : k[m] # "none"}} :
        k \in [EntryNames -> {"none", "file", "dir", "other"}]}

Orders(entries) ==
    {items \in [1..Cardinality(entries) -> entries] :
        \A i, j \in 1..Cardinality(entries) : items[i] = items[j] => i = j}

InitTool ==
    /\ pc = "tool"
    /\ disk \in {Absent} \cup {FileWith(c) : c \in Texts(MaxContent)}
                \cup {DirWith(e) : e \in Directories}
    /\ tool_out = [called |-> FALSE, tool |-> "", again |-> FALSE, input |-> <<>>,
                   before |-> disk, raised |-> FALSE, out |-> ""]
    /\ provider = "anthropic"
    /\ show_stats = FALSE
    /\ output_file = FALSE
    /\ file = FileOf("absent", <<>>)
    /\ file0 = file
    /\ conversation = <<>>
    /\ chat_history = <<>>
    /\ total_tokens = [prompt_tokens |-> 0, completion_tokens |-> 0,
                       total_tokens |-> 0]
    /\ message = NoMessage
    /\ tool_calls = <<>>
    /\ tool_results = <<>>
    /\ request = [model |-> "", system |-> <<>>, messages |-> <<>>]
    /\ uuids = 0
    /\ turns = 0
    /\ infers = 0
    /\ turn_calls = 0
    /\ turn_tool_resps = 0
    /\ requested = 0
    /\ turn_end = "none"
    /\ flushed = <<>>
    /\ last = Did("init")
    /\ resp = NoResp
    /\ BuiltByChat

\* A handler was called: the tool, whether this is a listing that directly
\* follows a listing, the input, what was at the path before the call, and
\* what the handler gave.
Called(tool, input, result) ==
    [called |-> TRUE, tool |-> tool,
     again |-> (tool = "list_files" /\ tool_out.tool = "list_files"),
     input |-> input, before |-> disk, raised |-> result.raised,
     out |-> result.out]

ToolFrame ==
    UNCHANGED <<provider, show_stats, output_file, file0, options, got, model_name,
                system_message, resp, conversation, chat_history, total_tokens, file, pc,
                locals, request, uuids, counters, turn_end, flushed, last>>

\* plugin._read_file({"path": path})
ReadFile(path) ==
    /\ pc = "tool"
    /\ tool_out' = Called("read_file", [path |-> path], read_file(disk, path))
    /\ UNCHANGED disk
    /\ ToolFrame

\* plugin._list_files({"path": path})
ListFiles(items) ==
    /\ pc = "tool"
    /\ tool_out' = Called("list_files", [path |-> <<"p">>], list_files(disk, items))
    /\ UNCHANGED disk
    /\ ToolFrame

\* plugin._edit_file({"path": path, "old_str": old_str, "new_str": new_str})
EditFile(path, old_str, new_str) ==
    /\ pc = "tool"
    /\ LET edited == edit_file(disk, path, old_str, new_str)
       IN /\ tool_out' = Called("edit_file",
                                [path |-> path, old_str |-> old_str,
                                 new_str |-> new_str],
                                edited.result)
          /\ disk' = edited.disk
          /\ edited.disk.kind = "file" => Len(edited.disk.content) <= MaxContent
    /\ ToolFrame

NextTool ==
    \/ \E path \in Paths : ReadFile(path)
    \/ \E items \in Orders(IF disk.kind = "dir" THEN disk.entries ELSE {}) :
          ListFiles(items)
    \/ \E path \in Paths, old_str \in Texts(MaxStr), new_str \in Texts(MaxStr) :
          EditFile(path, old_str, new_str)

ToolSpec == InitTool /\ [][NextTool]_vars

(***************************************************************************)
(* Properties.                                                             *)
(***************************************************************************)
\* Entry res holds one result per call of entry req, in the calls' order.
Answers(req, res) ==
    /\ res.kind = "tool_result"
    /\ res.role = "user"
    /\ Len(res.items) = Len(req.items)
    /\ \A j \in 1..Len(req.items) : res.items[j].tool_use_id = req.items[j].id

\* C1: whenever run() is about to call the provider, every assistant entry of
\* the conversation that holds N tool calls is directly followed by a user
\* entry that holds exactly N tool results, the i-th carrying the i-th call's
\* id; no inference call is made over a tool call without its result.
C1_ResultsBeforeInference ==
    pc = "infer" =>
        \A i \in 1..Len(conversation) :
            conversation[i].kind = "tool_use" =>
                /\ Len(conversation[i].items) >= 1
                /\ i < Len(conversation)
                /\ Answers(conversation[i], conversation[i + 1])

C1_Witness ==
    /\ pc = "infer"
    /\ last.act = "AppendToolResults"
    /\ Len(conversation) >= 2
    /\ conversation[Len(conversation) - 1].kind = "tool_use"
    /\ Len(conversation[Len(conversation) - 1].items) = 2
    /\ Last(conversation).items[1].tool_use_id = 1
    /\ Last(conversation).items[2].tool_use_id = 2

\* C2: a user turn that completes has made exactly one inference call more
\* than it got responses with tool calls, and its last response had none;
\* while a turn is still going on, every response it got carried tool calls.
C2_LoopEndsAtFirstPlainResponse ==
    /\ (pc = "await" /\ turn_end = "complete") =>
            /\ turn_calls = turn_tool_resps + 1
            /\ tool_calls = <<>>
    /\ (pc = "exec" \/ (pc = "infer" /\ turn_end = "none")) =>
            turn_calls = turn_tool_resps

C2_Witness ==
    /\ pc = "await"
    /\ turn_end = "complete"
    /\ turn_tool_resps = 1
    /\ turn_calls = 2

\* C3: a step of the tool loop in which the handler of a registered tool
\* fails raises nothing: it adds the result {the call's id, is_error true,
\* the failure message} and stays in the loop, and the loop is left only for
\* the next inference call, with one result per call (or by Ctrl+C).
C3_HandlerFailureBecomesResult ==
    [][/\ (/\ pc = "exec"
           /\ last'.act = "ExecuteTool"
           /\ CurrentCall.name \in RegisteredTools
           /\ Handler(CurrentCall.name, CurrentCall.input, last'.env).raised)
          => /\ ~last'.raised
             /\ pc' = "exec"
             /\ turn_end' = turn_end
             /\ conversation' = conversation
             /\ tool_results' =
                  Append(tool_results,
                         [type |-> "tool_result",
                          tool_use_id |-> CurrentCall.id,
                          content |-> Handler(CurrentCall.name, CurrentCall.input,
                                              last'.env).content,
                          is_error |-> TRUE])
       /\ (pc = "exec" /\ pc' # "exec")
          => \/ pc' = "done"
             \/ /\ pc' = "infer"
                /\ Len(tool_results) = Len(tool_calls)
                /\ Last(conversation').items = tool_results]_vars

C3_Witness ==
    /\ pc = "exec"
    /\ last.act = "ExecuteTool"
    /\ last.handler = "raised"
    /\ Last(tool_results).is_error
    /\ Len(tool_results) < Len(tool_calls)

\* C4: a step of the tool loop at a call whose name is not registered runs no
\* handler and raises nothing: it adds the result {the call's id, is_error
\* true, "Tool not found"} and stays in the loop, which is left only for the
\* next inference call (or by Ctrl+C).
C4_UnknownToolBecomesResult ==
    [][/\ (/\ pc = "exec"
           /\ last'.act = "ExecuteTool"
           /\ CurrentCall.name \notin RegisteredTools)
          => /\ ~last'.raised
             /\ last'.handler = "not_run"
             /\ pc' = "exec"
             /\ turn_end' = turn_end
             /\ tool_results' =
                  Append(tool_results,
                         [type |-> "tool_result",
                          tool_use_id |-> CurrentCall.id,
                          content |-> "Tool not found",
                          is_error |-> TRUE])
       /\ (pc = "exec" /\ pc' # "exec") => pc' \in {"infer", "done"}]_vars

C4_Witness ==
    /\ pc = "infer"
    /\ last.act = "AppendToolResults"
    /\ \E j \in 1..Len(Last(conversation).items) :
          /\ Last(conversation).items[j].content = "Tool not found"
          /\ Last(conversation).items[j].is_error

\* C5: a vendor call that raises is reported and sends run() back to input()
\* with the conversation, the history and the counters as they were and no
\* tool run; inference calls are made only from inside a turn, and a turn is
\* entered only by a non-empty user line, which is followed by an inference
\* call.
C5_InferenceFailureAbortsTurn ==
    [][/\ (pc = "infer" /\ last'.act = "RunInference"
           /\ last'.cause = "run_inference")
          => /\ pc' = "await"
             /\ last'.printed = "Error"
             /\ turn_end' = "aborted"
             /\ UNCHANGED <<conversation, chat_history, file, total_tokens,
                            tool_calls, tool_results>>
       /\ (pc = "await" /\ pc' # "await")
          => \/ pc' = "done"
             \/ /\ pc' = "infer"
                /\ last'.act = "UserInput"
                /\ turns' = turns + 1
                /\ Last(conversation').role = "user"
       /\ infers' # infers => pc = "infer"
       /\ tool_results' # tool_results => pc \in {"calls", "exec"}]_vars

C5_Witness ==
    /\ pc = "await"
    /\ last.act = "RunInference"
    /\ last.cause = "run_inference"
    /\ last.printed = "Error"
    /\ turn_end = "aborted"

\* C6: run() returns only by KeyboardInterrupt; a failure that reaches the
\* handler of run() (input, vendor call, usage extraction) leaves run() at
\* input(), and a failure of a tool handler or of a history save is absorbed
\* where it happens, the turn going on.
C6_FailuresNeverEndSession ==
    [][/\ (pc # "done" /\ pc' = "done") => last'.act = "KeyboardInterrupt"
       /\ last'.raised => pc' = "await"
       /\ (last'.handler = "raised" \/ last'.save = "failed")
          => /\ ~last'.raised
             /\ pc' \in {"exec", "calls", "direct"}]_vars

C6_Witness ==
    /\ pc = "await"
    /\ last.raised
    /\ last.act = "DeliverText"
    /\ last.cause = "get_token_usage"

\* C7: for every response run() has received, the usage the adapter extracts
\* has total_tokens = prompt_tokens + completion_tokens.
C7_TotalIsSum ==
    message # NoMessage =>
        LET usage == get_token_usage(provider, message)
        IN ~usage.raised =>
              usage.total_tokens = usage.prompt_tokens + usage.completion_tokens

\* C8: every step leaves the earlier conversation a prefix of the later one,
\* and a step that makes a vendor call leaves the conversation as it was.
C8_ConversationAppendOnly ==
    [][/\ IsPrefix(conversation, conversation')
       /\ infers' # infers => conversation' = conversation]_vars

C8_Witness ==
    /\ pc = "await"
    /\ turn_end = "aborted"
    /\ last.cause = "run_inference"
    /\ Len(conversation) >= 3
    /\ Last(conversation).kind = "tool_result"

\* The records of a history file: those of its JSON array, none when the
\* file is absent or is not JSON.
PreviousRecords(f) == IF f.kind = "list" THEN f.recs ELSE <<>>

\* C9: a save that succeeds leaves the file the JSON array of its previous
\* records (none when the file was absent) followed by the buffered records
\* in their order, and leaves the buffer empty.
C9_SaveAppendsBuffer ==
    [][(last'.act = "SaveChatHistory" /\ last'.save = "saved")
       => /\ file'.kind = "list"
          /\ file'.recs = PreviousRecords(file) \o chat_history
          /\ chat_history' = <<>>]_vars

C9_Witness ==
    /\ file0.kind = "absent"
    /\ flushed = <<1, 1>>
    /\ file.kind = "list"
    /\ Len(file.recs) = 2
    /\ file.recs[1].id = 1
    /\ file.recs[2].id = 2
    /\ chat_history = <<>>

\* C10: a save that finds the existing file corrupt or unreadable fails only
\* if the write fails: otherwise it leaves the file the JSON array of the
\* buffered records alone and the buffer empty; and run() goes on.
C10_UnreadableTreatedAsEmpty ==
    [][(/\ last'.act = "SaveChatHistory"
        /\ output_file
        /\ file.kind \in {"corrupt", "unreadable"})
       => /\ \/ last'.cause = "write"
             \/ /\ file' = [kind |-> "list", recs |-> chat_history]
                /\ chat_history' = <<>>
          /\ pc' # "done"]_vars

\* C11: a Ctrl+C, wherever run() is when it arrives (a history save
\* included), ends the loop and leaves in the history file every record the
\* file held before it.
C11_InterruptKeepsSavedRecords ==
    [][last'.act = "KeyboardInterrupt"
       => /\ pc' = "done"
          /\ IsPrefix(PreviousRecords(file), PreviousRecords(file'))]_vars

\* C12: with a --model override every inference call of the session names
\* the overriding model; without one it names the provider's default model.
C12_OverrideReachesInference ==
    infers > 0 =>
        request.model =
            IF options.model # "" THEN options.model
            ELSE IF provider = "anthropic" THEN "claude-3-7-sonnet-latest"
                 ELSE "gpt-4-turbo-preview"

\* C16: get_provider gives a provider and its key exactly when the name is,
\* in any letter case, "anthropic" or "openai" and the API key of that
\* provider is set to a non-empty value, and fails otherwise; after a
\* failure chat() has exited, with no agent and no inference call, and an
\* agent exists only after a get_provider that succeeded.
C16_ProviderOnlyWithNameAndKey ==
    LET name == Lower(options.provider)
        key == IF name = Anthropic THEN options.anthropic_key
               ELSE options.openai_key
        supported == name \in {Anthropic, OpenAI} /\ key \notin {"unset", ""}
    IN /\ got.called =>
            /\ got.raised <=> ~supported
            /\ supported =>
                 /\ got.provider = IF name = Anthropic THEN "anthropic" ELSE "openai"
                 /\ got.api_key = key
            /\ got.raised => pc \in {"exit", "called"}
       /\ pc \in {"exit", "called"} =>
            /\ provider = "none"
            /\ infers = 0
            /\ request.model = ""
            /\ conversation = <<>>
       /\ provider # "none" => got.called /\ ~got.raised

C16_Witness ==
    /\ pc = "exit"
    /\ last.act = "Chat"
    /\ got.called
    /\ got.raised
    /\ options.provider = OpenAI
    /\ options.openai_key = ""
    /\ options.anthropic_key = "k"

RECURSIVE Concat(_)
Concat(seqs) == IF seqs = <<>> THEN <<>> ELSE Head(seqs) \o Concat(Tail(seqs))

\* The tool-invocation segments of a vendor response, in the response's
\* order, each with its id, its name and the structured input it denotes:
\* the input object of an Anthropic tool_use block, the object that the
\* JSON arguments text of an OpenAI tool call encodes.
SegmentsOf(response) ==
    IF response.vendor = "anthropic"
    THEN LET IsToolUse(b) == b.type = "tool_use"
             blocks == SelectSeq(response.content, IsToolUse)
         IN [i \in 1..Len(blocks) |->
               [id |-> blocks[i].id, name |-> blocks[i].name,
                input |-> blocks[i].input]]
    ELSE Concat([k \in 1..Len(response.choices) |->
                   [i \in 1..Len(response.choices[k].tool_calls) |->
                      [id    |-> response.choices[k].tool_calls[i].id,
                       name  |-> response.choices[k].tool_calls[i].name,
                       input |-> "dict"]]])

\* C13: extract_tool_calls returns one {id, name, input} entry per tool
\* segment of the response, in the segments' order, each with the segment's
\* id, name and structured input; none for a response without tool segment.
C13_OneEntryPerToolSegment ==
    pc = "extracted" => tool_calls = SegmentsOf(message)

\* C18: OpenAIProvider.run_inference sends, with a system prompt, one system
\* entry that holds the prompt followed by the caller's messages in their
\* order, and without one the caller's messages as they are; the caller's
\* list is after the call what it was before it.
C18_SystemEntryPrepended ==
    [][(pc = "send" /\ pc' = "sent" /\ provider = "openai")
       => /\ conversation' = conversation
          /\ IF system_message = <<>>
             THEN request'.messages = conversation
             ELSE /\ Len(request'.messages) = Len(conversation) + 1
                  /\ request'.messages[1].role = "system"
                  /\ request'.messages[1].text = system_message
                  /\ \A i \in 1..Len(conversation) :
                        request'.messages[i + 1] = conversation[i]]_vars

C18_Witness ==
    /\ pc = "sent"
    /\ provider = "openai"
    /\ system_message # <<>>
    /\ Len(conversation) = 2
    /\ Len(request.messages) = 3
    /\ request.messages[1].role = "system"
    /\ request.messages[3] = conversation[2]

\* old_str occurs in content.
Occurs(old_str, content) ==
    \E i \in 1..(Len(content) - Len(old_str) + 1) :
        SubSeq(content, i, i + Len(old_str) - 1) = old_str

\* The pieces of content between the occurrences of old_str, taken from
\* the left; piece is the part of the current piece already passed.
RECURSIVE SplitAt(_, _, _)
SplitAt(content, old_str, piece) ==
    IF Len(content) < Len(old_str) THEN <<piece \o content>>
    ELSE IF SubSeq(content, 1, Len(old_str)) = old_str
         THEN <<piece>> \o SplitAt(SubSeq(content, Len(old_str) + 1, Len(content)),
                                   old_str, <<>>)
         ELSE SplitAt(Tail(content), old_str, Append(piece, Head(content)))

RECURSIVE JoinWith(_, _)
JoinWith(pieces, new_str) ==
    IF Len(pieces) = 1 THEN pieces[1]
    ELSE pieces[1] \o new_str \o JoinWith(Tail(pieces), new_str)

\* C14: with a non-empty path edit_file follows the case table.  old_str
\* equal to new_str: it fails and nothing changes.  old_str empty, file
\* absent: the file is created with content new_str and a creation message
\* is returned.  old_str empty, file present: the content becomes the old
\* content followed by new_str, "OK".  old_str not empty and in the file:
\* every occurrence is replaced by new_str, "OK".  old_str not empty and not
\* in the file, or file absent: it fails and nothing changes.
C14_EditFileCaseTable ==
    (tool_out.called /\ tool_out.tool = "edit_file" /\ tool_out.input.path # <<>>)
    => LET old_str == tool_out.input.old_str
           new_str == tool_out.input.new_str
           before == tool_out.before
       IN /\ old_str = new_str => tool_out.raised /\ disk = before
          /\ (old_str = <<>> /\ new_str # <<>> /\ before.kind = "absent")
                => /\ ~tool_out.raised
                   /\ tool_out.out = "Successfully created file"
                   /\ disk = FileWith(new_str)
          /\ (old_str = <<>> /\ new_str # <<>> /\ before.kind = "file")
                => /\ ~tool_out.raised
                   /\ tool_out.out = "OK"
                   /\ disk = FileWith(before.content \o new_str)
          /\ (/\ old_str # <<>>
              /\ old_str # new_str
              /\ before.kind = "file"
              /\ Occurs(old_str, before.content))
                => /\ ~tool_out.raised
                   /\ tool_out.out = "OK"
                   /\ disk = FileWith(JoinWith(SplitAt(before.content, old_str, <<>>),
                                               new_str))
          /\ (/\ old_str # <<>>
              /\ old_str # new_str
              /\ \/ before.kind = "absent"
                 \/ before.kind = "file" /\ ~Occurs(old_str, before.content))
                => tool_out.raised /\ disk = before

C14_Witness ==
    /\ tool_out.called
    /\ tool_out.tool = "edit_file"
    /\ tool_out.input = [path |-> <<"p">>, old_str |-> <<"a">>, new_str |-> <<"b">>]
    /\ tool_out.before = FileWith(<<"a", "b", "a">>)
    /\ ~tool_out.raised
    /\ tool_out.out = "OK"
    /\ disk = FileWith(<<"b", "b", "b">>)

\* The names of the entries of directory d that are of the given kind.
EntryNamesOf(d, kind) == {e.name : e \in {x \in d.entries : x.kind = kind}}

\* A listing of directory d: the directories' names with "/" after each,
\* then the files' names, each name once.
ListsEntries(list, d) ==
    LET dirs == EntryNamesOf(d, "dir")
        files == EntryNamesOf(d, "file")
    IN /\ Len(list) = Cardinality(dirs) + Cardinality(files)
       /\ \A i \in 1..Len(list) :
            IF i <= Cardinality(dirs)
            THEN \E n \in dirs : list[i] = n \o <<"/">>
            ELSE list[i] \in files
       /\ \A i, j \in 1..Len(list) : list[i] = list[j] => i = j

\* A listing that directly follows a listing gives what that one gave.
SameAgain ==
    [][(tool_out'.called /\ tool_out'.again)
       => /\ tool_out'.raised = tool_out.raised
          /\ tool_out'.out = tool_out.out]_vars

\* What list_files gave is a listing of the directory, ordered within the
\* directories' part and within the files' part as the texts key(i) are;
\* on a path that does not exist it raised.
ListingOrderedBy(key(_, _)) ==
    (tool_out.called /\ tool_out.tool = "list_files")
    => /\ tool_out.before.kind = "absent" => tool_out.raised
       /\ tool_out.before.kind = "dir"
            => /\ ~tool_out.raised
               /\ ListsEntries(tool_out.out.json_array, tool_out.before)
               /\ LET list == tool_out.out.json_array
                      n == Cardinality(EntryNamesOf(tool_out.before, "dir"))
                  IN \A i, j \in 1..Len(list) :
                        (i < j /\ (i <= n <=> j <= n))
                            => TextLess(key(list[i], i <= n), key(list[j], j <= n))

\* The name of an entry of a listing: without the "/" of a directory.
BareName(text, is_directory) ==
    IF is_directory THEN SubSeq(text, 1, Len(text) - 1) ELSE text

\* The entry of a listing as it is.
AsListed(text, is_directory) == text

\* C15 as stated: list_files returns the directories' names in alphabetical
\* order, "/" after each, then the files' names in alphabetical order; two
\* calls in a row return the same; a path that does not exist is an error.
C15_AlphabeticalByName == []ListingOrderedBy(BareName) /\ SameAgain

\* C15, amended: the directories' part is ordered as the suffixed texts are,
\* by code points ("a.b/" before "a/"), and the files' part by code points.
C15_SortedAsSuffixed == []ListingOrderedBy(AsListed) /\ SameAgain

C15_Witness ==
    /\ tool_out.called
    /\ tool_out.tool = "list_files"
    /\ tool_out.again
    /\ ~tool_out.raised
    /\ tool_out.out = JsonDumps(<<<<"a", ".", "b", "/">>, <<"a", "/">>, <<"b">>>>)

NoTokens == [prompt_tokens |-> 0, completion_tokens |-> 0, total_tokens |-> 0]

\* C17: the counters are zero before the first inference call and, without
\* --stats, for the whole run; with --stats an inference call that succeeds
\* adds to each counter what the adapter reports for the response, and any
\* other step, a failed inference call included, leaves the counters as
\* they are.
C17_CountersSumReportedUsage ==
    /\ []((infers = 0 \/ ~show_stats) => total_tokens = NoTokens)
    /\ [][IF /\ show_stats
             /\ infers' = infers + 1
             /\ last'.act = "RunInference"
             /\ ~last'.raised
          THEN LET usage == get_token_usage(provider, message')
               IN /\ ~usage.raised
                  /\ total_tokens'.prompt_tokens =
                        total_tokens.prompt_tokens + usage.prompt_tokens
                  /\ total_tokens'.completion_tokens =
                        total_tokens.completion_tokens + usage.completion_tokens
                  /\ total_tokens'.total_tokens =
                        total_tokens.total_tokens + usage.total_tokens
          ELSE total_tokens' = total_tokens]_vars

C17_Witness ==
    /\ show_stats
    /\ provider = "openai"
    /\ infers = 2
    /\ last.act = "RunInference"
    /\ ~last.raised
    /\ total_tokens = [prompt_tokens |-> 4, completion_tokens |-> 2,
                       total_tokens |-> 7]

\* Every tool call up to the one the loop is at has its result, in order;
\* the calls are in the order of the response's tool segments, whose ids
\* are 1, 2, ... in that order.
ResultsFollowCalls ==
    /\ Len(tool_results) <= Len(tool_calls)
    /\ \A i \in 1..Len(tool_calls) : tool_calls[i].id = i
    /\ \A i \in 1..Len(tool_results) : tool_results[i].tool_use_id = tool_calls[i].id

\* C19: the tool calls of a response are executed one per step in the order
\* received; the next inference call is made only when all of them have
\* their results; a step makes at most one inference call, a step that
\* makes one runs no tool, and a step that runs a tool runs exactly the
\* next call of the response.
C19_OneAtATimeInOrder ==
    /\ [](pc = "exec" => ResultsFollowCalls)
    /\ [](pc = "infer"
            => \/ last.act = "UserInput" /\ turn_calls = 0
               \/ /\ last.act = "AppendToolResults"
                  /\ ResultsFollowCalls
                  /\ Len(tool_results) = Len(tool_calls))
    /\ [][/\ infers' # infers
             => /\ infers' = infers + 1
                /\ pc = "infer"
                /\ last'.act = "RunInference"
                /\ tool_results' = tool_results
                /\ tool_calls' = tool_calls
          /\ last'.act = "ExecuteTool"
             => /\ pc = "exec"
                /\ infers' = infers
                /\ tool_calls' = tool_calls
                /\ Len(tool_results) < Len(tool_calls)
                /\ Len(tool_results') = Len(tool_results) + 1
                /\ SubSeq(tool_results', 1, Len(tool_results)) = tool_results
                /\ Last(tool_results').tool_use_id =
                      tool_calls[Len(tool_results) + 1].id]_vars

C19_Witness ==
    /\ pc = "infer"
    /\ last.act = "AppendToolResults"
    /\ infers = 1
    /\ Len(tool_calls) = 2
    /\ Len(tool_results) = 2
    /\ tool_calls[1].name = "bogus"
    /\ tool_calls[2].name = "read_file"
    /\ tool_results[1].tool_use_id = 1
    /\ tool_results[1].is_error
    /\ tool_results[2].tool_use_id = 2
    /\ ~tool_results[2].is_error

\* What the conversation has gained since the response resp arrived.
Gained == SubSeq(conversation, resp.at + 1, Len(conversation))

\* The assistant-text entry of the response resp, if its text is not empty.
TextPart ==
    IF resp.text # <<>> THEN <<TextEntry("assistant", resp.text)>> ELSE <<>>

\* Entry use is one assistant entry that holds all tool calls of resp in order.
HoldsCalls(use) ==
    /\ use.role = "assistant"
    /\ use.kind = "tool_use"
    /\ Len(use.items) = Len(resp.calls)
    /\ \A i \in 1..Len(resp.calls) :
          /\ use.items[i].id = resp.calls[i].id
          /\ use.items[i].name = resp.calls[i].name
          /\ use.items[i].input = resp.calls[i].input

\* The conversation has gained all that the response resp is to add.
GainedAll ==
    IF resp.calls = <<>> THEN Gained = TextPart
    ELSE /\ Len(Gained) = Len(TextPart) + 2
         /\ SubSeq(Gained, 1, Len(TextPart)) = TextPart
         /\ HoldsCalls(Gained[Len(TextPart) + 1])
         /\ Gained[Len(TextPart) + 2].kind = "tool_result"
         /\ Answers(Gained[Len(TextPart) + 1], Gained[Len(TextPart) + 2])

RunRecords(f) ==
    LET OfThisRun(r) == r.conversation_id = "this"
    IN SelectSeq(PreviousRecords(f), OfThisRun)

\* C21: after a flush that succeeds the history file holds every history
\* record the agent has created so far, in the order of creation, and the
\* buffer is empty.
C21_FlushHoldsAllRecords ==
    [][(last'.act = "SaveChatHistory" /\ last'.save = "saved")
       => /\ Len(RunRecords(file')) = uuids
          /\ \A i \in 1..uuids : RunRecords(file')[i].id = i
          /\ chat_history' = <<>>]_vars

\* C22: every call of run_inference from run() is made on a conversation that
\* is not empty and whose last entry has the role user: the user message that
\* was just entered, or the batch of tool results that was just produced.
C22_InferenceOnUserEntry ==
    [][infers' # infers
       => /\ conversation # <<>>
          /\ Last(conversation).role = "user"
          /\ \/ /\ last.act = "UserInput"
                /\ Last(conversation).kind = "text"
             \/ /\ last.act = "AppendToolResults"
                /\ Last(conversation) =
                     ItemsEntry("user", "tool_result", tool_results)
                /\ tool_results # <<>>]_vars

C22_Witness ==
    /\ last.act = "RunInference"
    /\ pc = "text"
    /\ infers = 2
    /\ Last(request.messages).role = "user"
    /\ Last(conversation).kind = "tool_result"
    /\ Len(Last(conversation).items) = 2

\* A line that holds nothing but spaces (or nothing at all).
Blank(line) == \A i \in 1..Len(line) : line[i] = " "

\* C23: a user input line that is empty after stripping changes nothing: the
\* conversation, the history buffer, the history file and the counters stay
\* as they were, no inference call is made and run() awaits the next line.
C23_BlankInputChangesNothing ==
    [][(last'.act \in {"EmptyInput", "UserInput"} /\ Blank(last'.line))
       => /\ conversation' = conversation
          /\ chat_history' = chat_history
          /\ uuids' = uuids
          /\ file' = file
          /\ total_tokens' = total_tokens
          /\ infers' = infers
          /\ request' = request
          /\ pc' = "await"]_vars

C23_Witness ==
    /\ last.act = "EmptyInput"
    /\ last.line = <<" ">>
    /\ pc = "await"
    /\ conversation # <<>>
    /\ chat_history # <<>>
    /\ infers = 1

\* The records of this agent in the file carry strictly increasing ids: none
\* appears twice and they stand in the order of their creation.
InCreationOrder(recs) ==
    \A i, j \in 1..Len(recs) : i < j => recs[i].id < recs[j].id

\* C24: a _save_chat_history call that fails leaves the history buffer as it
\* was, and the buffer is emptied only by a call that wrote the existing
\* records followed by the whole buffer; so at all times no record of the
\* agent is in the file twice and its records in the file are in the order
\* of their creation.
C24_FailedSaveKeepsBuffer ==
    /\ [][last'.act = "SaveChatHistory"
          => /\ last'.save = "failed" => chat_history' = chat_history
             /\ chat_history' # chat_history
                  => /\ last'.save = "saved"
                     /\ chat_history' = <<>>
                     /\ file'.kind = "list"
                     /\ file'.recs = PreviousRecords(file) \o chat_history]_vars
    /\ [](InCreationOrder(RunRecords(file)))

C24_Witness ==
    /\ last.act = "SaveChatHistory"
    /\ last.save = "failed"
    /\ last.cause = "write"
    /\ file.kind = "corrupt"
    /\ flushed # <<>>
    /\ Len(chat_history) = 2

====
